---- MODULE Spec2Model ----
(***************************************************************************)
(* Model of the city search page: the query function getCities             *)
(* (api/getCities), the view controller App (App.tsx) with its search      *)
(* requests in flight, and the debounce of the search term.                *)
(*                                                                         *)
(* Text is modelled as a sequence of one-character strings, so that trim,  *)
(* toLowerCase and includes are computed and not assumed.                  *)
(***************************************************************************)
EXTENDS Integers, Sequences, FiniteSets, TLC

---------------------------------------------------------------------------
(* Bounds of the model *)

\* longest dataset drawn for the query function
MaxCities == 3
\* longest search term drawn for the query function
MaxTermLen == 2
\* largest explicit limit drawn for the query function (besides the default)
MaxLimit == 4
\* largest offset drawn for the query function
MaxOffset == 4
\* number of search requests the view issues in one behaviour
MaxRequests == 3
\* longest row sequence given to the table
MaxRows == 3
\* number of clicks on sort buttons in one behaviour
MaxActivations == 4

---------------------------------------------------------------------------
(* Values *)

\* JavaScript values carry a tag; null is the value tagged "null"
Null == [tag |-> "null"]

isNull(v) == v.tag = "null"

\* a JavaScript array holding the sequence items
Array(items) == [tag |-> "array", items |-> items]

\* whitespace removed by String.prototype.trim
Whitespace == {" ", "\t"}

\* characters the drawn search terms are made of
TermChars == {"a", "B", " "}

\* the term the README says mimics an error
ErrorTerm == <<"e", "r", "r", "o", "r">>

\* a term that matches no sample row
NoMatchTerm == <<"z">>

\* sample rows of data/worldcities/cities: (id, name, nameAscii, country,
\* countryIso3, capital, population)
Row1 == <<1, <<"A", "b">>, <<"A", "b">>, <<"B", "a">>, "BAX", "primary", 3>>
Row2 == <<2, <<"B">>, <<"B">>, <<"a", "a">>, "AAX", "admin", 80>>
Row3 == <<3, <<"a", " ", "B">>, <<"a", " ", "B">>, <<"A">>, "AXX", "", 9>>
Row4 == <<4, <<"b">>, <<"b">>, <<>>, "XXX", "", 0>>
RowPool == {Row1, Row2, Row3, Row4}

RECURSIVE SeqsUpTo(_, _)
\* all sequences over S of length at most n
SeqsUpTo(S, n) ==
    IF n = 0 THEN {<<>>}
    ELSE LET shorter == SeqsUpTo(S, n - 1)
         IN  shorter \cup {Append(s, x) : s \in shorter, x \in S}

\* a dataset is an ordered sequence of rows with unique identifiers
Datasets ==
    {d \in SeqsUpTo(RowPool, MaxCities) :
        \A i, j \in 1..Len(d) : i # j => d[i][1] # d[j][1]}

\* search terms drawn for the query function
Terms == SeqsUpTo(TermChars, MaxTermLen) \cup {ErrorTerm, NoMatchTerm}

Limits == (-1..MaxLimit) \cup {10000}
Offsets == -1..MaxOffset

\* option objects handed to getCities: SearchOptions is Partial, every field
\* may be absent
OptionObjects ==
    {[searchTerm |-> t, limit |-> l, offset |-> o] :
        t \in Terms, l \in Limits, o \in Offsets}
    \cup {[searchTerm |-> t] : t \in Terms}
    \cup {[limit |-> l] : l \in Limits}
    \cup {[offset |-> o] : o \in Offsets}

---------------------------------------------------------------------------
(* Text functions of the JavaScript runtime, as the code uses them *)

\* one character of String.prototype.toLowerCase
toLowerCaseChar(c) ==
    CASE c = "A" -> "a"
      [] c = "B" -> "b"
      [] c = "E" -> "e"
      [] OTHER -> c

toLowerCase(s) == [i \in 1..Len(s) |-> toLowerCaseChar(s[i])]

RECURSIVE trimStart(_)
trimStart(s) ==
    IF s = <<>> THEN s
    ELSE IF Head(s) \in Whitespace THEN trimStart(Tail(s)) ELSE s

RECURSIVE trimEnd(_)
trimEnd(s) ==
    IF s = <<>> THEN s
    ELSE IF s[Len(s)] \in Whitespace THEN trimEnd(SubSeq(s, 1, Len(s) - 1))
    ELSE s

\* String.prototype.trim
trim(s) == trimEnd(trimStart(s))

\* String.prototype.includes
includes(s, t) ==
    \E i \in 0..(Len(s) - Len(t)) : SubSeq(s, i + 1, i + Len(t)) = t

\* Array.prototype.slice(start, end) on integer arguments
slice(list, start, end) ==
    LET len == Len(list)
        k == IF start < 0
             THEN (IF len + start > 0 THEN len + start ELSE 0)
             ELSE (IF start < len THEN start ELSE len)
        final == IF end < 0
                 THEN (IF len + end > 0 THEN len + end ELSE 0)
                 ELSE (IF end < len THEN end ELSE len)
    IN  SubSeq(list, k + 1, final)

---------------------------------------------------------------------------
(* api/getCities *)

DefaultLimit == 10000

ValidationMessage == "Offset must be non-negative, and limit must be greater than 0."

\* the destructuring defaults of the parameter object
optLimit(options) ==
    IF "limit" \in DOMAIN options THEN options.limit ELSE DefaultLimit

optOffset(options) ==
    IF "offset" \in DOMAIN options THEN options.offset ELSE 0

optSearchTerm(options) ==
    IF "searchTerm" \in DOMAIN options THEN options.searchTerm ELSE <<>>

\* the validation of the pagination parameters
invalidRange_limitZeroAccepted(offset, limit) == offset < 0 \/ limit < 0

invalidRange(offset, limit) == offset < 0 \/ limit <= 0

normalizeSearchTerm_noTrim(searchTerm) == toLowerCase(searchTerm)

normalizeSearchTerm_noLowerCase(searchTerm) == trim(searchTerm)

normalizeSearchTerm(searchTerm) == toLowerCase(trim(searchTerm))

\* the filter predicate on one raw row
rowMatches_nameOnly(c, normalizedSearchTerm) ==
    includes(toLowerCase(c[2]), normalizedSearchTerm)

rowMatches(c, normalizedSearchTerm) ==
    \/ includes(toLowerCase(c[2]), normalizedSearchTerm)
    \/ includes(toLowerCase(c[4]), normalizedSearchTerm)

RECURSIVE filterRows(_, _)
\* Array.prototype.filter with the predicate above
filterRows(rows, normalizedSearchTerm) ==
    IF rows = <<>> THEN <<>>
    ELSE IF rowMatches(Head(rows), normalizedSearchTerm)
         THEN <<Head(rows)>> \o filterRows(Tail(rows), normalizedSearchTerm)
         ELSE filterRows(Tail(rows), normalizedSearchTerm)

\* an empty normalized term is falsy: the whole dataset is the match set
filteredList(rows, normalizedSearchTerm) ==
    IF normalizedSearchTerm # <<>>
    THEN filterRows(rows, normalizedSearchTerm)
    ELSE rows

paginatedList_oneBased(list, offset, limit) ==
    slice(list, offset + 1, offset + limit)

paginatedList_endIsLimit(list, offset, limit) == slice(list, offset, limit)

paginatedList(list, offset, limit) == slice(list, offset, offset + limit)

toCity_populationFromId(row) ==
    [id |-> row[1], name |-> row[2], nameAscii |-> row[3], country |-> row[4],
     countryIso3 |-> row[5], capital |-> row[6], population |-> row[1]]

\* the mapping of a raw row to a City object
toCity(row) ==
    [id |-> row[1], name |-> row[2], nameAscii |-> row[3], country |-> row[4],
     countryIso3 |-> row[5], capital |-> row[6], population |-> row[7]]

\* the dataset after a call: filter, slice and map build new arrays and leave
\* the array they are applied to as it was
datasetAfter_splice(rows, options) ==
    IF invalidRange(optOffset(options), optLimit(options)) THEN rows
    ELSE IF normalizeSearchTerm(optSearchTerm(options)) # <<>> THEN rows
    ELSE LET offset == optOffset(options)
             end == offset + optLimit(options)
         IN  slice(rows, 0, offset) \o slice(rows, end, Len(rows))

datasetAfter(rows, options) == rows

\* getCities over the dataset rows: a rejection with a message, or the
\* sequence of City objects the promise resolves with
getCities(rows, options) ==
    LET limit == optLimit(options)
        offset == optOffset(options)
        searchTerm == optSearchTerm(options)
    IN  IF invalidRange(offset, limit)
        THEN [tag |-> "thrown", message |-> ValidationMessage]
        ELSE LET page == paginatedList(
                             filteredList(rows, normalizeSearchTerm(searchTerm)),
                             offset, limit)
             IN  [tag |-> "returned",
                  value |-> [i \in 1..Len(page) |-> toCity(page[i])]]

---------------------------------------------------------------------------
(* State *)

VARIABLES
    worldcities,          \* the dataset, fixed at load time
    options,              \* the option object of a direct call of getCities
    result,               \* what that call settled with, Null before the call
    second,               \* a later call of getCities: its kind, option object
                          \* and result; Null before it
    mounted,              \* the effects of App have run
    destroyed,            \* App was unmounted (torn down)
    searchTerm,           \* App state: the value of the search input
    debouncedSearchTerm,  \* the value useDebounce returns
    debounceTimer,        \* the value the pending debounce timer carries, or Null
    cities,               \* App state: the stored search result
    error,                \* App state: the Error of the last failure, or Null
    isPending,            \* App state
    noResults,            \* App state
    requests,             \* the calls of getCities made by runSearch, in the
                          \* order they were issued: the term passed and the
                          \* outcome the promise settled with (Null in flight)
    lastEvent,            \* the handler that ran last (history)
    tableData,            \* SortableTable: the data prop
    sortConfig,           \* SortableTable state: the sort keys and directions
    currentPage,          \* SortableTable state
    rowsPerPage,          \* SortableTable state
    activated,            \* the column keys activated so far (history)
    tableEvent            \* the table handler that ran last (history)

queryVars == <<options, result, second>>
appVars == <<mounted, destroyed, searchTerm, debouncedSearchTerm,
             debounceTimer, cities, error, isPending, noResults, requests,
             lastEvent>>
tableVars == <<tableData, sortConfig, currentPage, rowsPerPage, activated,
               tableEvent>>
vars == <<worldcities, options, result, second, mounted, destroyed,
          searchTerm, debouncedSearchTerm, debounceTimer, cities, error, isPending,
          noResults, requests, lastEvent, tableData, sortConfig, currentPage,
          rowsPerPage, activated, tableEvent>>

\* the default of the initialRowsPerPage prop
DefaultRowsPerPage == 10

\* a table that is not under study: no rows, the initial state of its hooks
IdleTable ==
    /\ tableData = <<>>
    /\ sortConfig = <<>>
    /\ currentPage = 1
    /\ rowsPerPage = DefaultRowsPerPage
    /\ activated = <<>>
    /\ tableEvent = [op |-> "init", key |-> "", page |-> 1]

---------------------------------------------------------------------------
(* App: the view controller *)

\* the values typed into the search input
InputTerms == {<<>>, <<"a">>, <<" ", "B">>, ErrorTerm}

\* the datasets the view is run over
AppDatasets == {<<>>, <<Row1, Row2, Row3>>}

\* messages of the failures of the data source (the rejections the tests of
\* App mock)
SourceFailureMessages == {"Network Error"}

\* the TypeError thrown by reading .length of null
NullLengthTypeError ==
    [tag |-> "error", name |-> "TypeError",
     message |-> "Cannot read properties of null (reading 'length')"]

ErrorOf(m) == [tag |-> "error", name |-> "Error", message |-> m]

\* the condition under which App renders SortableTable
tableRendered(pending, empty, err) == ~pending /\ ~empty /\ isNull(err)

\* the table after App rendered its new state.  While App does not render
\* the table there is no table state: the variables keep what they held
\* and are not read.  A table rendered again starts with the initial state
\* of its hooks; a table that stays rendered keeps its state and is given
\* the new rows.
renderTable ==
    LET rows == IF isNull(cities') THEN <<>> ELSE cities'.items
    IN  IF destroyed' \/ ~tableRendered(isPending', noResults', error')
        THEN UNCHANGED tableVars
        ELSE IF tableRendered(isPending, noResults, error)
        THEN /\ tableData' = rows
             /\ UNCHANGED <<sortConfig, currentPage, rowsPerPage, activated,
                            tableEvent>>
        ELSE /\ tableData' = rows
             /\ sortConfig' = <<>>
             /\ currentPage' = 1
             /\ rowsPerPage' = DefaultRowsPerPage
             /\ activated' = <<>>
             /\ tableEvent' = [op |-> "init", key |-> "", page |-> 1]

\* the initial values of the useState calls
InitApp ==
    /\ mounted = FALSE
    /\ destroyed = FALSE
    /\ searchTerm = <<>>
    /\ debouncedSearchTerm = <<>>
    /\ debounceTimer = Null
    /\ cities = Array(<<>>)
    /\ error = Null
    /\ isPending = FALSE
    /\ noResults = FALSE
    /\ requests = <<>>
    /\ lastEvent = [op |-> "init", id |-> 0]

\* the requests that have not settled
inflight == {i \in 1..Len(requests) : isNull(requests[i].outcome)}

\* the promise getCities returns, settled: fulfilled with the sequence, or
\* rejected with the Error thrown
getCitiesOutcome(rows, opts) ==
    LET r == getCities(rows, opts)
    IN  IF r.tag = "returned"
        THEN [tag |-> "fulfilled", value |-> Array(r.value)]
        ELSE [tag |-> "rejected", reason |-> ErrorOf(r.message)]

\* the option object runSearch hands to getCities for a term
runSearchOptions_untrimmed(term) == [searchTerm |-> term]

runSearchOptions(term) ==
    LET trimmedTerm == trim(term)
    IN  [searchTerm |-> trimmedTerm]

\* runSearch up to its await: the flags are set and the request is issued
runSearchStart(term) ==
    LET trimmedTerm == runSearchOptions(term).searchTerm
    IN  /\ Len(requests) < MaxRequests
        /\ isPending' = TRUE
        /\ error' = Null
        /\ requests' = Append(requests,
                              [term |-> trimmedTerm, outcome |-> Null])
        /\ lastEvent' = [op |-> "runSearch", id |-> Len(requests) + 1]
        /\ UNCHANGED <<cities, noResults>>

\* the state of cities after the try block ran on the settled promise
citiesAfter(outcome) ==
    IF outcome.tag = "fulfilled" THEN outcome.value ELSE cities

\* the state of noResults after the try block
noResultsAfter(outcome) ==
    IF outcome.tag = "fulfilled" /\ ~isNull(outcome.value)
    THEN Len(outcome.value.items) = 0
    ELSE noResults

\* only a rejected promise reaches the catch block
errorAfter_rejectionOnly(outcome) ==
    IF outcome.tag = "rejected" THEN outcome.reason ELSE error
\* the state of error after the catch block
errorAfter_swallowed(outcome) == error

errorAfter(outcome) ==
    IF outcome.tag = "rejected" THEN outcome.reason
    ELSE IF isNull(outcome.value) THEN NullLengthTypeError
    ELSE error

\* the pending flag is cleared at the end of the try block only
isPendingAfter_noFinally(outcome) ==
    IF outcome.tag = "fulfilled" /\ ~isNull(outcome.value)
    THEN FALSE
    ELSE isPending

\* the state of isPending after the finally block
isPendingAfter(outcome) == FALSE

\* runSearch from its await on: try, catch and finally for request i.  The
\* continuation runs to its end without yielding, and its state updates are
\* rendered together (one batch).
runSearchSettle(i, outcome) ==
    /\ i \in inflight
    /\ requests' = [requests EXCEPT ![i].outcome = outcome]
    /\ cities' = citiesAfter(outcome)
    /\ noResults' = noResultsAfter(outcome)
    /\ error' = errorAfter(outcome)
    /\ isPending' = isPendingAfter(outcome)
    /\ UNCHANGED <<worldcities, queryVars, mounted, destroyed, searchTerm,
                   debouncedSearchTerm, debounceTimer>>
    /\ renderTable

\* the first run of the effects: the search effect runs runSearch on the
\* initial debounced term, the effect of useDebounce starts its timer
Mount ==
    /\ ~mounted
    /\ mounted' = TRUE
    /\ runSearchStart(debouncedSearchTerm)
    /\ debounceTimer' = [tag |-> "timer", value |-> searchTerm]
    /\ UNCHANGED <<worldcities, queryVars, destroyed, searchTerm,
                   debouncedSearchTerm>>
    /\ renderTable

\* a change event of the input; the effect of useDebounce restarts the timer
onSearchTermChange(value) ==
    /\ mounted
    /\ ~destroyed
    /\ value # searchTerm
    /\ searchTerm' = value
    /\ debounceTimer' = [tag |-> "timer", value |-> value]
    /\ lastEvent' = [op |-> "onSearchTermChange", id |-> 0]
    /\ UNCHANGED <<worldcities, queryVars, mounted, destroyed,
                   debouncedSearchTerm, cities, error, isPending, noResults,
                   requests>>
    /\ renderTable

\* the debounce timer fires; when the debounced term changes the search
\* effect runs runSearch on it
DebounceFire ==
    /\ mounted
    /\ ~isNull(debounceTimer)
    /\ debouncedSearchTerm' = debounceTimer.value
    /\ debounceTimer' = Null
    /\ IF debounceTimer.value # debouncedSearchTerm
       THEN runSearchStart(debounceTimer.value)
       ELSE /\ lastEvent' = [op |-> "debounce", id |-> 0]
            /\ UNCHANGED <<cities, error, isPending, noResults, requests>>
    /\ UNCHANGED <<worldcities, queryVars, mounted, destroyed, searchTerm>>
    /\ renderTable

\* request i settles with what getCities computes for its term
Resolve(i) ==
    /\ i \in inflight
    /\ runSearchSettle(i, getCitiesOutcome(worldcities,
                                           [searchTerm |-> requests[i].term]))
    /\ lastEvent' = [op |-> "resolve", id |-> i]

\* request i is rejected by a failure of the data source
Reject(i, message) ==
    /\ i \in inflight
    /\ runSearchSettle(i, [tag |-> "rejected", reason |-> ErrorOf(message)])
    /\ lastEvent' = [op |-> "reject", id |-> i]

\* request i resolves with a value that is not a sequence
ResolveMalformed(i) ==
    /\ i \in inflight
    /\ runSearchSettle(i, [tag |-> "fulfilled", value |-> Null])
    /\ lastEvent' = [op |-> "malformed", id |-> i]

Init ==
    /\ worldcities \in AppDatasets
    /\ options = Null
    /\ result = Null
    /\ second = Null
    /\ InitApp
    /\ IdleTable

Next ==
    \/ Mount
    \/ \E value \in InputTerms : onSearchTermChange(value)
    \/ DebounceFire
    \/ \E i \in 1..MaxRequests : Resolve(i)
    \/ \E i \in 1..MaxRequests, m \in SourceFailureMessages : Reject(i, m)
    \/ \E i \in 1..MaxRequests : ResolveMalformed(i)

Spec == Init /\ [][Next]_vars

\* the values typed while the debounce is studied
DebounceTerms == InputTerms

\* the user types only while a search can still follow the keystroke
NextDebounce ==
    \/ Mount
    \/ /\ Len(requests) < MaxRequests
       /\ \E value \in DebounceTerms : onSearchTermChange(value)
    \/ DebounceFire
    \/ \E i \in 1..MaxRequests : Resolve(i)

\* some request in flight settles with what getCities computes
ResolveInflight == \E i \in inflight : Resolve(i)

\* the effects of the first render run, a timer that is not restarted
\* fires, and a request to a data source that works is answered.  The last
\* conjunct is WF_vars(ResolveInflight) written out: a step of
\* ResolveInflight always changes requests, and it is enabled exactly when
\* inflight is not empty.
SpecDebounce ==
    /\ Init
    /\ [][NextDebounce]_vars
    /\ WF_vars(Mount)
    /\ WF_vars(DebounceFire)
    /\ ([]<>(inflight = {}) \/ []<><<ResolveInflight>>_vars)

---------------------------------------------------------------------------
(* App torn down while it is in use *)

\* App is unmounted: the cleanup of the effect of useDebounce clears the
\* pending timer.  The search effect of App returns no cleanup and runSearch
\* holds no reference to the view being there, so a request in flight stays
\* in flight and its continuation calls the setters as before; from here on
\* cities, error, isPending and noResults hold what was last handed to the
\* setters, and nothing is rendered.
Unmount ==
    /\ mounted
    /\ ~destroyed
    /\ destroyed' = TRUE
    /\ debounceTimer' = Null
    /\ lastEvent' = [op |-> "unmount", id |-> 0]
    /\ UNCHANGED <<worldcities, queryVars, mounted, searchTerm,
                   debouncedSearchTerm, cities, error, isPending, noResults,
                   requests>>
    /\ UNCHANGED tableVars

NextTeardown ==
    \/ Mount
    \/ \E value \in InputTerms : onSearchTermChange(value)
    \/ DebounceFire
    \/ \E i \in 1..MaxRequests : Resolve(i)
    \/ \E i \in 1..MaxRequests, m \in SourceFailureMessages : Reject(i, m)
    \/ Unmount

SpecTeardown == Init /\ [][NextTeardown]_vars
---------------------------------------------------------------------------
(* App with every request settling *)

\* the values typed while the settling of requests is studied
SettleTerms == {<<>>, <<"a">>}

\* some request in flight settles: it resolves, is rejected or resolves
\* with a value that is not a sequence
SettleInflight ==
    \E i \in inflight :
        \/ Resolve(i)
        \/ \E m \in SourceFailureMessages : Reject(i, m)
        \/ ResolveMalformed(i)

NextSettle ==
    \/ Mount
    \/ \E value \in SettleTerms : onSearchTermChange(value)
    \/ DebounceFire
    \/ \E i \in 1..MaxRequests : Resolve(i)
    \/ \E i \in 1..MaxRequests, m \in SourceFailureMessages : Reject(i, m)
    \/ \E i \in 1..MaxRequests : ResolveMalformed(i)

\* the effects of the first render run, a timer that is not restarted
\* fires, and every request settles.  The last conjunct is
\* WF_vars(SettleInflight) written out: a step of SettleInflight always
\* changes requests, and it is enabled exactly when inflight is not empty.
SpecSettle ==
    /\ Init
    /\ [][NextSettle]_vars
    /\ WF_vars(Mount)
    /\ WF_vars(DebounceFire)
    /\ ([]<>(inflight = {}) \/ []<><<SettleInflight>>_vars)

---------------------------------------------------------------------------
(* What App renders *)

showLoading == isPending

showAlert == ~isNull(error)

alertText == <<"Oops! Something went wrong: ", error.message>>

showNoResults == ~isPending /\ noResults

showTable == tableRendered(isPending, noResults, error)

---------------------------------------------------------------------------
(* The query function called directly *)

InitQuery ==
    /\ worldcities \in Datasets
    /\ options \in OptionObjects
    /\ result = Null
    /\ second = Null
    /\ InitApp
    /\ IdleTable

CallGetCities ==
    /\ isNull(result)
    /\ result' = getCities(worldcities, options)
    /\ worldcities' = datasetAfter(worldcities, options)
    /\ UNCHANGED <<options, second>>
    /\ UNCHANGED <<appVars, tableVars>>

\* the later call, made on the dataset as the first call left it
laterCall(kind, opts) ==
    /\ ~isNull(result)
    /\ isNull(second)
    /\ second' = [tag |-> kind, options |-> opts,
                  result |-> getCities(worldcities, opts)]
    /\ worldcities' = datasetAfter(worldcities, opts)
    /\ UNCHANGED <<options, result>>
    /\ UNCHANGED <<appVars, tableVars>>

\* the same call once more
CallAgain ==
    /\ ~isNull(result)
    /\ laterCall("same", options)

\* the call with the offset folded into the limit: (limit + offset, 0)
CallFromStart ==
    /\ DOMAIN options = {"searchTerm", "limit", "offset"}
    /\ options.offset >= 0
    /\ options.limit > 0
    /\ laterCall("fromStart",
                 [options EXCEPT !.limit = options.limit + options.offset,
                                 !.offset = 0])

\* one character with its letter case changed
swapCaseChar(c) ==
    CASE c = "a" -> "A"
      [] c = "A" -> "a"
      [] c = "b" -> "B"
      [] c = "B" -> "b"
      [] c = "e" -> "E"
      [] c = "E" -> "e"
      [] OTHER -> c

\* the terms that differ from t only in leading or trailing whitespace or in
\* letter case
TermVariants(t) ==
    LET swapped == [i \in 1..Len(t) |-> swapCaseChar(t[i])]
    IN  {<<"\t", " ">> \o t \o <<" ">>, swapped,
         <<" ">> \o swapped \o <<"\t">>} \ {t}

\* the call with a variant of the term and the same offset and limit
CallWithVariant ==
    /\ "searchTerm" \in DOMAIN options
    /\ \E term \in TermVariants(options.searchTerm) :
           laterCall("variant", [options EXCEPT !.searchTerm = term])

\* the call runSearch makes when the term, or a variant of it, is typed
CallFromView ==
    /\ DOMAIN options = {"searchTerm"}
    /\ \E term \in TermVariants(options.searchTerm) \cup {options.searchTerm} :
           laterCall("view", runSearchOptions(term))

NextQuery ==
    \/ CallGetCities
    \/ CallAgain
    \/ CallFromStart
    \/ CallWithVariant
    \/ CallFromView

SpecQuery == InitQuery /\ [][NextQuery]_vars

---------------------------------------------------------------------------
(* Comparison of JavaScript values, as the sort comparator applies it *)

\* a cell of a row read at run time: a string, a number, undefined or null
Str(chars) == [tag |-> "string", chars |-> chars]
Num(n) == [tag |-> "number", value |-> n]
Undefined == [tag |-> "undefined"]
NaN == [tag |-> "NaN"]

\* the UTF-16 code unit of a character
charCode(c) ==
    CASE c = "\t" -> 9
      [] c = " " -> 32
      [] c = "0" -> 48
      [] c = "1" -> 49
      [] c = "2" -> 50
      [] c = "3" -> 51
      [] c = "4" -> 52
      [] c = "5" -> 53
      [] c = "6" -> 54
      [] c = "7" -> 55
      [] c = "8" -> 56
      [] c = "9" -> 57
      [] c = "A" -> 65
      [] c = "B" -> 66
      [] c = "E" -> 69
      [] c = "a" -> 97
      [] c = "b" -> 98
      [] c = "e" -> 101
      [] c = "o" -> 111
      [] c = "r" -> 114
      [] c = "z" -> 122

Digits == {"0", "1", "2", "3", "4", "5", "6", "7", "8", "9"}

RECURSIVE digitsValue(_)
\* the number a sequence of decimal digits denotes
digitsValue(chars) ==
    IF chars = <<>> THEN 0
    ELSE 10 * digitsValue(SubSeq(chars, 1, Len(chars) - 1))
         + (charCode(chars[Len(chars)]) - 48)

RECURSIVE digitsOf(_)
\* the decimal digits of a natural number
digitsOf(n) ==
    LET digit == CHOOSE c \in Digits : charCode(c) - 48 = n % 10
    IN  IF n < 10 THEN <<digit>> ELSE Append(digitsOf(n \div 10), digit)

\* ToNumber: a number is itself; a string is trimmed, empty text is 0,
\* decimal digits are their value and any other text is NaN
toNumber(v) ==
    IF v.tag = "number" THEN v
    ELSE LET text == trim(v.chars)
         IN  IF text = <<>> THEN Num(0)
             ELSE IF \A i \in 1..Len(text) : text[i] \in Digits
                  THEN Num(digitsValue(text))
                  ELSE NaN

RECURSIVE stringLess(_, _)
\* s < t for two strings: code unit by code unit, a proper prefix is less
stringLess(s, t) ==
    IF t = <<>> THEN FALSE
    ELSE IF s = <<>> THEN TRUE
    ELSE IF charCode(Head(s)) < charCode(Head(t)) THEN TRUE
    ELSE IF charCode(Head(s)) > charCode(Head(t)) THEN FALSE
    ELSE stringLess(Tail(s), Tail(t))

\* ToString of a string or a number
toText(v) == IF v.tag = "string" THEN v.chars ELSE digitsOf(v.value)

\* every value compared as text
lessThan_asText(a, b) == stringLess(toText(a), toText(b))
\* a < b: two strings compare as strings; otherwise both operands are
\* converted to numbers, and a comparison with NaN is false
lessThan(a, b) ==
    IF a.tag = "string" /\ b.tag = "string" THEN stringLess(a.chars, b.chars)
    ELSE LET x == toNumber(a)
             y == toNumber(b)
         IN  x.tag = "number" /\ y.tag = "number" /\ x.value < y.value

\* a > b
greaterThan(a, b) == lessThan(b, a)

---------------------------------------------------------------------------
(* components/SortableTable *)

\* a sample row that ties with Row2 on name, with Row1 on country and with
\* Row3 on population
Row5 == <<5, <<"B">>, <<"B">>, <<"B", "a">>, "BAX", "", 9>>

\* the records the table is given: cities as getCities maps them
TableRows == {toCity(row) : row \in RowPool \cup {Row5}}

\* the data prop: a sequence of distinct records
TableDatasets ==
    {d \in SeqsUpTo(TableRows, MaxRows) :
        \A i, j \in 1..Len(d) : i # j => d[i] # d[j]}

\* the columns App gives the table, all of them sortable
SortableColumns == {"name", "country", "population"}

\* the initialRowsPerPage prop: the default and the value the tests pass
InitialRowsPerPage == {2, DefaultRowsPerPage}

\* the options of the rows-per-page select
RowsPerPageOptions == {5, 10, 15, 20}

\* the keys of a row whose value is null: a row that has such keys lists
\* them in its field nullKeys
nullKeysOf(row) == IF "nullKeys" \in DOMAIN row THEN row.nullKeys ELSE {}

\* row[key] at run time
cell(row, key) ==
    IF key \notin DOMAIN row THEN Undefined
    ELSE IF key \in nullKeysOf(row) THEN Null
    ELSE IF key \in {"id", "population"} THEN Num(row[key])
    ELSE Str(row[key])

\* a value that is not there counts as a text behind every other text
cellOrEmpty_missingLast(row, key) ==
    LET v == cell(row, key)
    IN  IF v.tag \in {"null", "undefined"} THEN Str(<<"z">>) ELSE v

\* row[key] ?? ''
cellOrEmpty(row, key) ==
    LET v == cell(row, key)
    IN  IF v.tag \in {"null", "undefined"} THEN Str(<<>>) ELSE v

\* the entries of the sort configuration on which a and b differ
decidingEntries(a, b, config) ==
    {n \in 1..Len(config) :
        \/ lessThan(cellOrEmpty(a, config[n].key), cellOrEmpty(b, config[n].key))
        \/ greaterThan(cellOrEmpty(a, config[n].key), cellOrEmpty(b, config[n].key))}

\* the comparator with the last entry of the configuration deciding first
compareRows_lastKeyFirst(a, b, config) ==
    LET deciding == decidingEntries(a, b, config)
    IN  IF deciding = {} THEN 0
        ELSE LET n == CHOOSE n \in deciding : \A m \in deciding : m <= n
                 less == lessThan(cellOrEmpty(a, config[n].key),
                                  cellOrEmpty(b, config[n].key))
                 asc == config[n].direction = "asc"
             IN  IF less = asc THEN -1 ELSE 1
\* the comparator handed to sort: the loop over the configuration returns at
\* the first entry on which the two rows differ, and 0 when there is none
compareRows(a, b, config) ==
    LET deciding == decidingEntries(a, b, config)
    IN  IF deciding = {} THEN 0
        ELSE LET n == CHOOSE n \in deciding : \A m \in deciding : n <= m
                 less == lessThan(cellOrEmpty(a, config[n].key),
                                  cellOrEmpty(b, config[n].key))
                 asc == config[n].direction = "asc"
             IN  IF less = asc THEN -1 ELSE 1

\* an element also moves behind a later element that compares equal to it
sortsAfter_orEqual(e, x, config) == compareRows(e, x, config) >= 0
\* Array.prototype.sort puts e behind x when the comparator is positive
sortsAfter(e, x, config) == compareRows(e, x, config) > 0

RECURSIVE insertSorted(_, _, _)
\* x, which follows every element of sorted in the input, put in its place:
\* behind the elements that do not sort after it
insertSorted(sorted, x, config) ==
    IF sorted = <<>> THEN <<x>>
    ELSE LET last == sorted[Len(sorted)]
             front == SubSeq(sorted, 1, Len(sorted) - 1)
         IN  IF sortsAfter(last, x, config)
             THEN Append(insertSorted(front, x, config), last)
             ELSE Append(sorted, x)

RECURSIVE arraySort(_, _)
\* Array.prototype.sort with the comparator: a stable sort
arraySort(items, config) ==
    IF items = <<>> THEN <<>>
    ELSE insertSorted(arraySort(SubSeq(items, 1, Len(items) - 1), config),
                      items[Len(items)], config)

\* the sortedData memo
sortedData(data, config) ==
    IF Len(config) = 0 THEN data ELSE arraySort(data, config)

\* the data prop sorted in place
dataAfterSort_inPlace(data, config) == sortedData(data, config)
\* the data prop after the memo ran: sort is applied to a copy, [...data]
dataAfterSort(data, config) == data

\* the rows of a page cut from the data as given and sorted among themselves
pageRows_sortWithinPage(data, config, page, size) ==
    LET startIndex == (page - 1) * size
    IN  sortedData(slice(data, startIndex, startIndex + size), config)
\* the rows of a page, with the first page starting at index rowsPerPage
pageRows_zeroBased(data, config, page, size) ==
    LET startIndex == page * size
    IN  slice(sortedData(data, config), startIndex, startIndex + size)
\* the rows the paginatedData memo computes for a page and a page size
pageRows(data, config, page, size) ==
    LET startIndex == (page - 1) * size
    IN  slice(sortedData(data, config), startIndex, startIndex + size)

\* the paginatedData memo
paginatedData == pageRows(tableData, sortConfig, currentPage, rowsPerPage)

\* Math.ceil(data.length / rowsPerPage)
totalPages == (Len(tableData) + rowsPerPage - 1) \div rowsPerPage

MathMax(a, b) == IF a > b THEN a ELSE b
MathMin(a, b) == IF a < b THEN a ELSE b

\* an ascending column turned descending moves to the end of the list
nextSortConfig_flipAtEnd(prevConfig, key) ==
    LET existing == {n \in 1..Len(prevConfig) : prevConfig[n].key = key}
        others == SelectSeq(prevConfig, LAMBDA config : config.key # key)
    IN  IF existing # {}
        THEN IF prevConfig[CHOOSE n \in existing : TRUE].direction = "asc"
             THEN Append(others, [key |-> key, direction |-> "desc"])
             ELSE others
        ELSE Append(prevConfig, [key |-> key, direction |-> "asc"])
\* a second activation of a descending column turns it ascending again
nextSortConfig_noRemoval(prevConfig, key) ==
    LET existing == {n \in 1..Len(prevConfig) : prevConfig[n].key = key}
    IN  IF existing # {}
        THEN [n \in 1..Len(prevConfig) |->
                 IF prevConfig[n].key = key
                 THEN [key |-> key,
                       direction |-> IF prevConfig[n].direction = "asc"
                                     THEN "desc" ELSE "asc"]
                 ELSE prevConfig[n]]
        ELSE Append(prevConfig, [key |-> key, direction |-> "asc"])
\* the updater handleSort gives setSortConfig
nextSortConfig(prevConfig, key) ==
    LET existing == {n \in 1..Len(prevConfig) : prevConfig[n].key = key}
    IN  IF existing # {}
        THEN LET existingConfig == prevConfig[CHOOSE n \in existing :
                                                 \A m \in existing : n <= m]
             IN  IF existingConfig.direction = "asc"
                 THEN [n \in 1..Len(prevConfig) |->
                          IF prevConfig[n].key = key
                          THEN [key |-> key, direction |-> "desc"]
                          ELSE prevConfig[n]]
                 ELSE SelectSeq(prevConfig, LAMBDA config : config.key # key)
        ELSE Append(prevConfig, [key |-> key, direction |-> "asc"])

\* the page stays where it was when the sort changes
pageAfterSort_kept(prev) == prev
\* setCurrentPage(1) at the end of handleSort
pageAfterSort(prev) == 1

\* a click on the sort button of a column: the whole handler
handleSort(key) ==
    /\ Len(activated) < MaxActivations
    /\ sortConfig' = nextSortConfig(sortConfig, key)
    /\ currentPage' = pageAfterSort(currentPage)
    /\ tableData' = dataAfterSort(tableData, sortConfig')
    /\ activated' = Append(activated, key)
    /\ tableEvent' = [op |-> "handleSort", key |-> key, page |-> currentPage]
    /\ UNCHANGED rowsPerPage
    /\ UNCHANGED <<worldcities, queryVars, appVars>>

\* a change of the rows-per-page select
onRowsPerPageChange(value) ==
    /\ value # rowsPerPage
    /\ rowsPerPage' = value
    /\ currentPage' = 1
    /\ tableEvent' = [op |-> "rowsPerPage", key |-> "", page |-> currentPage]
    /\ UNCHANGED <<tableData, sortConfig, activated>>
    /\ UNCHANGED <<worldcities, queryVars, appVars>>

\* a click on a page control that is not disabled
pageControl(name, disabled, page) ==
    /\ ~disabled
    /\ currentPage' = page
    /\ tableEvent' = [op |-> name, key |-> "", page |-> currentPage]
    /\ UNCHANGED <<tableData, sortConfig, rowsPerPage, activated>>
    /\ UNCHANGED <<worldcities, queryVars, appVars>>

\* the disabled attributes of the four page controls
firstDisabled == currentPage = 1
previousDisabled == currentPage = 1
nextDisabled == currentPage = totalPages
lastDisabled == currentPage = totalPages

FirstPage ==
    /\ ~firstDisabled
    /\ pageControl("First Page", firstDisabled, 1)

PreviousPage ==
    /\ ~previousDisabled
    /\ pageControl("Previous Page", previousDisabled,
                   MathMax(currentPage - 1, 1))

NextPage ==
    /\ ~nextDisabled
    /\ pageControl("Next Page", nextDisabled,
                   MathMin(currentPage + 1, totalPages))

LastPage ==
    /\ ~lastDisabled
    /\ pageControl("Last Page", lastDisabled, totalPages)

\* the table mounted with its props, every hook in its initial state
InitTable ==
    /\ tableData \in TableDatasets
    /\ sortConfig = <<>>
    /\ currentPage = 1
    /\ rowsPerPage \in InitialRowsPerPage
    /\ activated = <<>>
    /\ tableEvent = [op |-> "init", key |-> "", page |-> 1]
    /\ worldcities = <<>>
    /\ options = Null
    /\ result = Null
    /\ second = Null
    /\ InitApp

NextTable ==
    \/ \E key \in SortableColumns : handleSort(key)
    \/ \E value \in RowsPerPageOptions : onRowsPerPageChange(value)
    \/ FirstPage
    \/ PreviousPage
    \/ NextPage
    \/ LastPage

SpecTable == InitTable /\ [][NextTable]_vars

---------------------------------------------------------------------------
(* The table given rows with values that are not there *)

\* a row without the field country
RowWithoutCountry ==
    [id |-> 7, name |-> <<"B">>, nameAscii |-> <<"B">>, countryIso3 |-> "XXX",
     capital |-> "", population |-> 9]

\* a row whose country is null
RowWithNullCountry ==
    [id |-> 8, name |-> <<"a">>, nameAscii |-> <<"a">>, country |-> <<>>,
     countryIso3 |-> "XXX", capital |-> "", population |-> 3,
     nullKeys |-> {"country"}]

SparseRows ==
    {toCity(Row1), toCity(Row2), toCity(Row4), RowWithoutCountry,
     RowWithNullCountry}

SparseDatasets ==
    {d \in SeqsUpTo(SparseRows, MaxRows) :
        \A i, j \in 1..Len(d) : i # j => d[i] # d[j]}

InitSparse ==
    /\ tableData \in SparseDatasets
    /\ sortConfig = <<>>
    /\ currentPage = 1
    /\ rowsPerPage \in InitialRowsPerPage
    /\ activated = <<>>
    /\ tableEvent = [op |-> "init", key |-> "", page |-> 1]
    /\ worldcities = <<>>
    /\ options = Null
    /\ result = Null
    /\ second = Null
    /\ InitApp

SpecSparse == InitSparse /\ [][NextTable]_vars

---------------------------------------------------------------------------
(* App with the table it renders *)

\* a sample row that the term "a" does not match
Row6 == <<6, <<"b", "b">>, <<"b", "b">>, <<"B">>, "BXX", "", 80>>

\* a dataset that takes more than one page of the smallest page size
AppTableDatasets == {<<Row1, Row2, Row3, Row4, Row5, Row6>>}

\* the values typed into the search input while the table is used
AppTableTerms == {<<>>, <<"a">>}

\* the column the user sorts by and the page size the user selects
AppTableColumns == {"name"}
AppTablePageSizes == {5}

InitAppTable ==
    /\ worldcities \in AppTableDatasets
    /\ options = Null
    /\ result = Null
    /\ second = Null
    /\ InitApp
    /\ IdleTable

\* the controls of the table can be used while App renders it
tableUsable == mounted /\ showTable

NextAppTable ==
    \/ Mount
    \/ \E value \in AppTableTerms : onSearchTermChange(value)
    \/ DebounceFire
    \/ \E i \in 1..MaxRequests : Resolve(i)
    \/ tableUsable /\ \E key \in AppTableColumns : handleSort(key)
    \/ tableUsable /\ \E value \in AppTablePageSizes : onRowsPerPageChange(value)
    \/ tableUsable /\ FirstPage
    \/ tableUsable /\ PreviousPage
    \/ tableUsable /\ NextPage
    \/ tableUsable /\ LastPage

SpecAppTable == InitAppTable /\ [][NextAppTable]_vars

---------------------------------------------------------------------------
(* App over a dataset longer than the default limit of getCities *)

\* a dataset with one row more than the default limit, every row with its
\* own identifier
LargeDataset ==
    [i \in 1..(DefaultLimit + 1) |->
        <<i, <<"A">>, <<"A">>, <<"B">>, "BXX", "", i>>]

LargeDatasets == {<<Row1, Row2, Row3>>, LargeDataset}

\* the values typed: blank terms, which select the whole dataset
BlankTerms == {<<>>, <<" ">>, <<"\t">>}

InitLarge ==
    /\ worldcities \in LargeDatasets
    /\ options = Null
    /\ result = Null
    /\ second = Null
    /\ InitApp
    /\ IdleTable

NextLarge ==
    \/ Mount
    \/ \E value \in BlankTerms : onSearchTermChange(value)
    \/ DebounceFire
    \/ \E i \in 1..MaxRequests : Resolve(i)

SpecLarge == InitLarge /\ [][NextLarge]_vars
---------------------------------------------------------------------------
(* Claims about the view, checked under Spec *)

\* the presentation states that are on screen
shown ==
    {k \in {"pending", "error", "empty", "ready"} :
        \/ k = "pending" /\ showLoading
        \/ k = "error" /\ showAlert
        \/ k = "empty" /\ showNoResults
        \/ k = "ready" /\ showTable}

\* the outcome request i settled with
outcomeOf(i) == requests[i].outcome

\* request i was fulfilled with a sequence
fulfilledWithArray(i) ==
    /\ outcomeOf(i).tag = "fulfilled"
    /\ ~isNull(outcomeOf(i).value)

\* the step settles request i after a request issued later has settled
staleSettle(i) ==
    /\ i \in inflight
    /\ ~isNull(requests'[i].outcome)
    /\ \E j \in (i + 1)..Len(requests) : j \notin inflight

\* the step starts a search
searchIssued == Len(requests') = Len(requests) + 1

\* C1: with several requests in flight only the result of the most recently
\* issued one is applied: once all have settled, the stored cities and the
\* empty/error status are those of the last issued search, and a stale
\* request that settles after a newer one changes nothing.
C1_LatestRequestWins ==
    /\ [](requests # <<>> /\ inflight = {} =>
            LET o == outcomeOf(Len(requests))
            IN  IF o.tag = "rejected" THEN error = o.reason
                ELSE IF isNull(o.value) THEN showAlert
                ELSE /\ cities = o.value
                     /\ noResults = (Len(o.value.items) = 0)
                     /\ ~showAlert)
    /\ [][\A i \in 1..MaxRequests :
            staleSettle(i) => UNCHANGED <<cities, error, noResults, isPending>>]_vars

\* C2: in every reachable state the presentation states pending, error,
\* empty and ready are mutually exclusive: no two of the loading indicator,
\* the error alert, the 'No cities found.' message and the table are shown
\* together.
C2_MutuallyExclusive == Cardinality(shown) <= 1

\* C3: the view is pending exactly while a request has been issued and has
\* not settled: the loading indicator is shown whenever a request is in
\* flight and is not shown when none is.
C3_PendingIffInFlight == showLoading <=> (inflight # {})

\* C4: when a request is rejected the view shows the alert with the text
\* 'Oops! Something went wrong: ' followed by the message of that rejection,
\* the rejection issues no new request, and the alert stays shown until the
\* next search is issued (until then the error only changes to the Error of
\* another failed request).
C4_RejectionShown ==
    /\ [](lastEvent.op = "reject" =>
            /\ showAlert
            /\ outcomeOf(lastEvent.id).tag = "rejected"
            /\ error = outcomeOf(lastEvent.id).reason
            /\ alertText = <<"Oops! Something went wrong: ",
                             outcomeOf(lastEvent.id).reason.message>>)
    /\ [][lastEvent'.op = "reject" /\ lastEvent' # lastEvent =>
            /\ requests' = [requests EXCEPT
                               ![lastEvent'.id].outcome = requests'[lastEvent'.id].outcome]
            /\ inflight' = inflight \ {lastEvent'.id}]_vars
    /\ [][showAlert /\ ~searchIssued =>
            /\ showAlert'
            /\ error' # error => lastEvent'.op \in {"reject", "malformed"}]_vars

\* a request was rejected by the data source and its message is on screen,
\* while the stored result of an earlier search is kept
C4_Witness ==
    /\ lastEvent.op = "reject"
    /\ showAlert
    /\ alertText = <<"Oops! Something went wrong: ", "Network Error">>
    /\ ~showLoading
    /\ Len(requests) = 2
    /\ inflight = {}
    /\ ~isNull(cities)
    /\ Len(cities.items) > 0

\* C5: issuing a search clears the error of an earlier one at the moment the
\* view enters pending; when that search then succeeds with at least one
\* match the view shows the table with its results and no alert.
C5_NewSearchSupersedesError ==
    /\ lastEvent.op = "runSearch" => showLoading /\ ~showAlert
    /\ (/\ lastEvent.op = "resolve"
        /\ fulfilledWithArray(lastEvent.id)
        /\ Len(outcomeOf(lastEvent.id).value.items) > 0) =>
            /\ showTable
            /\ cities = outcomeOf(lastEvent.id).value
            /\ ~showAlert

\* C6: a search that succeeds with zero matches puts the view in the empty
\* state ('No cities found.') and not in the error state, whatever the
\* previous search left.
C6_EmptyNotError ==
    (/\ lastEvent.op = "resolve"
     /\ fulfilledWithArray(lastEvent.id)
     /\ Len(outcomeOf(lastEvent.id).value.items) = 0) =>
        /\ showNoResults
        /\ ~showAlert

\* C7: a request that resolves with a value that is not a sequence is a
\* failure: the view shows the alert, and neither the empty message nor the
\* table.
C7_MalformedIsError ==
    lastEvent.op = "malformed" =>
        /\ showAlert
        /\ ~showNoResults
        /\ ~showTable

\* C8: a search whose term is 'error' fails: when the data source has
\* answered it the view shows the alert and neither matches nor the empty
\* message.
C8_ErrorTermFails ==
    (/\ lastEvent.op = "resolve"
     /\ toLowerCase(requests[lastEvent.id].term) = ErrorTerm) =>
        /\ outcomeOf(lastEvent.id).tag = "rejected"
        /\ showAlert
        /\ ~showNoResults
        /\ ~showTable

---------------------------------------------------------------------------
(* Claims about the query function, checked under SpecQuery *)

\* the offset and limit a call runs with, absent fields taking the defaults
effectiveOffset == IF "offset" \in DOMAIN options THEN options.offset ELSE 0
effectiveLimit == IF "limit" \in DOMAIN options THEN options.limit ELSE 10000
effectiveTerm == IF "searchTerm" \in DOMAIN options THEN options.searchTerm ELSE <<>>

\* C9: getCities fails with the fixed validation message if and only if
\* offset < 0 or limit <= 0, for every dataset and term; nothing is clamped,
\* and for every other offset and limit it returns a sequence without error.
C9_ValidationIff ==
    ~isNull(result) =>
        /\ (result.tag = "thrown") <=> (effectiveOffset < 0 \/ effectiveLimit <= 0)
        /\ result.tag = "thrown" => result.message =
               "Offset must be non-negative, and limit must be greater than 0."
        /\ result.tag # "thrown" =>
               /\ result.tag = "returned"
               /\ DOMAIN result.value = 1..Len(result.value)

\* a call with limit 0 (and a valid offset) has been rejected with the message
C9_Witness ==
    /\ result.tag = "thrown"
    /\ result.message = ValidationMessage
    /\ "limit" \in DOMAIN options
    /\ options.limit = 0
    /\ effectiveOffset >= 0
    /\ worldcities # <<>>

\* t occurs in s as a block of consecutive characters
Contains(s, t) ==
    \E i \in 0..Len(s) : /\ i + Len(t) <= Len(s)
                         /\ \A k \in 1..Len(t) : s[i + k] = t[k]

\* the rows of the dataset the filter predicate of the claim selects
MatchingIndices ==
    LET t == toLowerCase(trim(effectiveTerm))
    IN  {i \in 1..Len(worldcities) :
            \/ Contains(toLowerCase(worldcities[i][2]), t)
            \/ Contains(toLowerCase(worldcities[i][4]), t)}

\* position in the dataset of the row with the given identifier
PositionOfId(id) == CHOOSE i \in 1..Len(worldcities) : worldcities[i][1] = id

\* C10: with offset 0 and a limit of at least |D|, getCities returns exactly
\* the records of D whose lower-cased name or country contains the trimmed,
\* lower-cased term: every returned record matches, no matching record is
\* left out, and the records come in dataset order.
C10_ExactMatchSet ==
    (/\ ~isNull(result)
     /\ effectiveOffset = 0
     /\ effectiveLimit >= Len(worldcities)
     /\ effectiveLimit > 0) =>
        /\ result.tag = "returned"
        /\ LET res == result.value
               t == toLowerCase(trim(effectiveTerm))
           IN  /\ \A j \in 1..Len(res) :
                      /\ \/ Contains(toLowerCase(res[j].name), t)
                         \/ Contains(toLowerCase(res[j].country), t)
                      /\ \E i \in MatchingIndices :
                             /\ worldcities[i][1] = res[j].id
                             /\ worldcities[i][2] = res[j].name
                             /\ worldcities[i][4] = res[j].country
               /\ \A i \in MatchingIndices :
                      \E j \in 1..Len(res) : res[j].id = worldcities[i][1]
               /\ Len(res) = Cardinality(MatchingIndices)
               /\ \A j, k \in 1..Len(res) :
                      j < k => PositionOfId(res[j].id) < PositionOfId(res[k].id)

\* a term that trimming and case folding change has selected a proper,
\* non-empty part of the dataset, one row of it through its country only
C10_Witness ==
    /\ result.tag = "returned"
    /\ effectiveOffset = 0
    /\ effectiveLimit >= Len(worldcities)
    /\ toLowerCase(trim(effectiveTerm)) # effectiveTerm
    /\ trim(effectiveTerm) # effectiveTerm
    /\ Len(result.value) > 1
    /\ Len(result.value) < Len(worldcities)
    /\ \E j \in 1..Len(result.value) :
           /\ ~Contains(toLowerCase(result.value[j].name),
                        toLowerCase(trim(effectiveTerm)))
           /\ Contains(toLowerCase(result.value[j].country),
                       toLowerCase(trim(effectiveTerm)))

Max(a, b) == IF a > b THEN a ELSE b
Min(a, b) == IF a < b THEN a ELSE b

\* the call ran with a valid offset and limit and has returned
returnedValid ==
    /\ ~isNull(result)
    /\ effectiveOffset >= 0
    /\ effectiveLimit > 0

\* the match set of the call: the matching rows, in dataset order
MatchSet ==
    LET n == Cardinality(MatchingIndices)
        at == CHOOSE f \in [1..n -> MatchingIndices] :
                  \A i, j \in 1..n : i < j => f[i] < f[j]
    IN  [i \in 1..n |-> worldcities[at[i]]]

\* C11: for every match set M, offset >= 0 and limit > 0, getCities returns
\* the slice M[offset, offset+limit): max(0, min(limit, |M| - offset))
\* records, the j-th being M[offset + j]; a limit beyond the match set gives
\* the available records, an offset at or beyond |M| the empty sequence, never
\* an error.
C11_SliceOfMatchSet ==
    returnedValid =>
        /\ result.tag = "returned"
        /\ Len(result.value) =
               Max(0, Min(effectiveLimit, Len(MatchSet) - effectiveOffset))
        /\ \A j \in 1..Len(result.value) :
               /\ result.value[j].id = MatchSet[effectiveOffset + j][1]
               /\ result.value[j].name = MatchSet[effectiveOffset + j][2]
        /\ effectiveOffset >= Len(MatchSet) => result.value = <<>>
        /\ effectiveLimit > Len(MatchSet) =>
               Len(result.value) = Max(0, Len(MatchSet) - effectiveOffset)

\* an inner slice: records of the match set are left out before and after it
C11_Witness ==
    /\ returnedValid
    /\ result.tag = "returned"
    /\ effectiveOffset >= 1
    /\ Len(result.value) >= 1
    /\ effectiveOffset + effectiveLimit < Len(MatchSet)
    /\ Len(MatchSet) < Len(worldcities) \/ toLowerCase(trim(effectiveTerm)) # <<>>

\* s without its first n records
DropFirst(s, n) == [i \in 1..Max(0, Len(s) - n) |-> s[i + n]]

\* C12: for every term, offset O >= 0 and limit L > 0, the result of
\* getCities with (limit L, offset O) equals the result with (limit L + O,
\* offset 0) without its first O records.
C12_OffsetIsDropFirst ==
    (~isNull(second) /\ second.tag = "fromStart") =>
        /\ result.tag = "returned"
        /\ second.result.tag = "returned"
        /\ second.options.limit = options.limit + options.offset
        /\ second.options.offset = 0
        /\ result.value = DropFirst(second.result.value, options.offset)

\* a call with a positive offset returned records, and fewer than the call
\* from the start
C12_Witness ==
    /\ ~isNull(second)
    /\ second.tag = "fromStart"
    /\ options.offset >= 1
    /\ options.limit >= 2
    /\ result.tag = "returned"
    /\ Len(result.value) >= 1
    /\ Len(second.result.value) = Len(result.value) + options.offset
    /\ toLowerCase(trim(options.searchTerm)) # <<>>

\* the term is empty or made of whitespace only
blankTerm(t) == \A i \in 1..Len(t) : t[i] \in {" ", "\t"}

\* C13: an empty or whitespace-only term selects the whole dataset: the
\* records returned are those of the dataset from the offset on, at most
\* limit of them, in dataset order; an empty dataset gives an empty result
\* for every term.
C13_BlankTermSelectsAll ==
    returnedValid =>
        /\ blankTerm(effectiveTerm) =>
               /\ result.tag = "returned"
               /\ Len(result.value) =
                      Max(0, Min(effectiveLimit, Len(worldcities) - effectiveOffset))
               /\ \A j \in 1..Len(result.value) :
                      /\ result.value[j].id = worldcities[effectiveOffset + j][1]
                      /\ result.value[j].name = worldcities[effectiveOffset + j][2]
        /\ worldcities = <<>> =>
               /\ result.tag = "returned"
               /\ result.value = <<>>

\* a term of whitespace has returned a whole dataset of which some row holds
\* no whitespace
C13_Witness ==
    /\ returnedValid
    /\ effectiveTerm # <<>>
    /\ blankTerm(effectiveTerm)
    /\ result.tag = "returned"
    /\ Len(worldcities) >= 2
    /\ Len(result.value) = Len(worldcities)
    /\ \E i \in 1..Len(worldcities) :
           /\ ~Contains(worldcities[i][2], <<" ">>)
           /\ ~Contains(worldcities[i][4], <<" ">>)

\* s neither starts nor ends with whitespace
noOuterWhitespace(s) ==
    s # <<>> => s[1] \notin {" ", "\t"} /\ s[Len(s)] \notin {" ", "\t"}

\* C14: two terms that differ only in leading/trailing whitespace or in
\* letter case give identical getCities results for every dataset, offset and
\* limit; the view passes the term without its outer whitespace, so what it
\* gets for a padded term is the result for the term itself.
C14_TermVariantsAgree ==
    ~isNull(second) =>
        /\ second.tag = "variant" =>
               /\ second.options.searchTerm # options.searchTerm
               /\ second.result = result
        /\ second.tag = "view" =>
               /\ DOMAIN second.options = {"searchTerm"}
               /\ noOuterWhitespace(second.options.searchTerm)
               /\ second.result = result

\* a term in another letter case and padded with whitespace has selected the
\* same proper, non-empty part of the dataset
C14_Witness ==
    /\ ~isNull(second)
    /\ second.tag = "variant"
    /\ trim(second.options.searchTerm) # second.options.searchTerm
    /\ trim(second.options.searchTerm) # trim(options.searchTerm)
    /\ result.tag = "returned"
    /\ second.result = result
    /\ Len(result.value) >= 1
    /\ Len(result.value) < Len(worldcities)
    /\ effectiveOffset = 0
    /\ effectiveLimit >= Len(worldcities)

---------------------------------------------------------------------------
(* Claims about the table, checked under SpecTable *)

\* all the rows in the order the table shows them, page after page
sortedRows == sortedData(tableData, sortConfig)

\* no row of rows is followed by a row with a smaller value of the column
Ascending(rows, key) ==
    \A i, j \in 1..Len(rows) :
        i < j => ~lessThan(cellOrEmpty(rows[j], key), cellOrEmpty(rows[i], key))

\* no row of rows is followed by a row with a greater value of the column
Descending(rows, key) ==
    \A i, j \in 1..Len(rows) :
        i < j => ~greaterThan(cellOrEmpty(rows[j], key),
                              cellOrEmpty(rows[i], key))

\* the values of the column differ from row to row
DistinctValues(rows, key) ==
    \A i, j \in 1..Len(rows) : i # j => rows[i][key] # rows[j][key]

\* C16: starting from an empty sort configuration, one activation of a
\* column shows the rows ascending by it, two activations show them
\* descending, and three leave the configuration empty and the rows in
\* the order of the input.
C16_ToggleCycle ==
    \A key \in SortableColumns :
        /\ activated = <<key>> =>
               /\ sortConfig = <<[key |-> key, direction |-> "asc"]>>
               /\ Ascending(sortedRows, key)
        /\ activated = <<key, key>> =>
               /\ sortConfig = <<[key |-> key, direction |-> "desc"]>>
               /\ Descending(sortedRows, key)
        /\ activated = <<key, key, key>> =>
               /\ sortConfig = <<>>
               /\ sortedRows = tableData

\* three activations of a column with distinct values whose rows arrive
\* neither ascending nor descending
C16_Witness ==
    \E key \in SortableColumns :
        /\ activated = <<key, key, key>>
        /\ tableEvent.op = "handleSort"
        /\ Len(tableData) = MaxRows
        /\ DistinctValues(tableData, key)
        /\ ~Ascending(tableData, key)
        /\ ~Descending(tableData, key)
        /\ sortedRows = tableData

\* the two rows have the same value of the column as far as < and > tell
Tie(a, b, key) ==
    /\ ~lessThan(cellOrEmpty(a, key), cellOrEmpty(b, key))
    /\ ~greaterThan(cellOrEmpty(a, key), cellOrEmpty(b, key))

\* a comes strictly before b by one entry of a sort configuration
BeforeBy(a, b, entry) ==
    IF entry.direction = "asc"
    THEN lessThan(cellOrEmpty(a, entry.key), cellOrEmpty(b, entry.key))
    ELSE greaterThan(cellOrEmpty(a, entry.key), cellOrEmpty(b, entry.key))

\* a comes strictly before b in the positional order of the configuration:
\* they tie on every entry before some entry, which puts a first
Before(a, b, config) ==
    \E n \in 1..Len(config) :
        /\ \A m \in 1..(n - 1) : Tie(a, b, config[m].key)
        /\ BeforeBy(a, b, config[n])

\* the keys of a sort configuration
KeysOf(config) == {config[n].key : n \in 1..Len(config)}

\* C17: the rows are ordered by the first entry of the sort configuration
\* in its direction, rows that tie on it by the second entry, and so on;
\* and the column at the head of the configuration stays at its head for
\* as long as it is in the configuration.
C17_PositionalPrecedence ==
    /\ [](\A i, j \in 1..Len(sortedRows) :
             i < j => ~Before(sortedRows[j], sortedRows[i], sortConfig))
    /\ [][(sortConfig # <<>> /\ sortConfig[1].key \in KeysOf(sortConfig'))
              => sortConfig'[1].key = sortConfig[1].key]_vars

\* two columns are in the configuration, two rows tie on the first and
\* differ on the second, and the other precedence would show another order
C17_Witness ==
    /\ Len(sortConfig) = 2
    /\ tableEvent.op = "handleSort"
    /\ \E i, j \in 1..Len(tableData) :
           /\ i # j
           /\ Tie(tableData[i], tableData[j], sortConfig[1].key)
           /\ ~Tie(tableData[i], tableData[j], sortConfig[2].key)
    /\ sortedRows # sortedData(tableData, <<sortConfig[2], sortConfig[1]>>)
    /\ sortedRows # sortedData(tableData, <<sortConfig[1]>>)

\* the two rows compare equal on every key of the configuration
EqualOnEveryKey(a, b, config) ==
    \A n \in 1..Len(config) : Tie(a, b, config[n].key)

\* the place of a row in a sequence of distinct rows
PlaceIn(rows, row) == CHOOSE p \in 1..Len(rows) : rows[p] = row

\* C18: two rows that compare equal on every key of the sort configuration
\* are shown in the order in which the input holds them.
C18_Stable ==
    \A i, j \in 1..Len(sortedRows) :
        (i < j /\ EqualOnEveryKey(sortedRows[i], sortedRows[j], sortConfig))
            => PlaceIn(tableData, sortedRows[i])
                   < PlaceIn(tableData, sortedRows[j])

\* a sort that moved rows while two of them compare equal on every key
C18_Witness ==
    /\ sortConfig # <<>>
    /\ tableEvent.op = "handleSort"
    /\ sortedRows # tableData
    /\ \E i, j \in 1..Len(tableData) :
           /\ i < j
           /\ EqualOnEveryKey(tableData[i], tableData[j], sortConfig)
           /\ \E k \in 1..Len(tableData) :
                  ~EqualOnEveryKey(tableData[i], tableData[k], sortConfig)

\* how often a row occurs in a sequence
Occurrences(rows, row) == Cardinality({p \in 1..Len(rows) : rows[p] = row})

\* the two sequences hold the same rows, each as often
Permutation(rows, others) ==
    /\ Len(rows) = Len(others)
    /\ \A row \in TableRows :
           Occurrences(rows, row) = Occurrences(others, row)

\* C19: sorting leaves the sequence it is given as it was; the rows shown
\* are a permutation of it, and with an empty sort configuration they are
\* the given sequence in its order.
C19_InputUnchanged ==
    /\ [](/\ Permutation(sortedRows, tableData)
          /\ sortConfig = <<>> => sortedRows = tableData)
    /\ [][tableEvent'.op = "handleSort" => tableData' = tableData]_vars

\* a sort that shows the rows in another order than the given one
C19_Witness ==
    /\ sortConfig # <<>>
    /\ tableEvent.op = "handleSort"
    /\ Len(tableData) = MaxRows
    /\ sortedRows # tableData
    /\ Permutation(sortedRows, tableData)

\* the names and countries of the sample rows in case-sensitive order: by
\* code unit, upper case before lower case, a prefix before its extensions
CaseSensitiveOrder ==
    << <<>>, <<"A">>, <<"A", "b">>, <<"B">>, <<"B", "a">>, <<"a", " ", "B">>,
       <<"a", "a">>, <<"b">> >>

\* the place of a text in the case-sensitive order
RankOf(text) ==
    CHOOSE n \in 1..Len(CaseSensitiveOrder) : CaseSensitiveOrder[n] = text

\* the configuration that sorts by one column, ascending
AscendingBy(key) == <<[key |-> key, direction |-> "asc"]>>

\* C20: sorted ascending by population the rows are in the order of the
\* numbers, 9 before 80; sorted ascending by a text column they are in
\* case-sensitive string order.
C20_NumericAndCaseSensitive ==
    /\ sortConfig = AscendingBy("population") =>
           \A i, j \in 1..Len(sortedRows) :
               i < j => sortedRows[i].population <= sortedRows[j].population
    /\ \A key \in {"name", "country"} :
           sortConfig = AscendingBy(key) =>
               \A i, j \in 1..Len(sortedRows) :
                   i < j => RankOf(sortedRows[i][key])
                                <= RankOf(sortedRows[j][key])

\* rows given with population 80 before population 9 and sorted ascending
\* by population: 9 is shown before 80
C20_Witness ==
    /\ sortConfig = AscendingBy("population")
    /\ tableEvent.op = "handleSort"
    /\ \E i, j \in 1..Len(tableData) :
           i < j /\ tableData[i].population = 80 /\ tableData[j].population = 9
    /\ \E i, j \in 1..Len(sortedRows) :
           i < j /\ sortedRows[i].population = 9 /\ sortedRows[j].population = 80

---------------------------------------------------------------------------
(* Claims about the pages of the table, checked under SpecTable *)

\* C21: the current page is at least 1 and at most the number of pages,
\* whatever was clicked before.
C21_PageInRange == 1 <= currentPage /\ currentPage <= totalPages

\* the least q with q * d >= n
CeilDiv(n, d) == CHOOSE q \in 0..n : q * d >= n /\ (q - 1) * d < n

\* C22: the number of pages is the row count divided by the page size,
\* rounded up, and 1 when there are no rows.
C22_TotalPagesAtLeastOne ==
    totalPages = IF Len(tableData) = 0 THEN 1
                 ELSE CeilDiv(Len(tableData), rowsPerPage)

\* C23: the first and previous controls are enabled exactly when the
\* current page is above 1, the next and last controls exactly when it is
\* below the number of pages.
C23_ControlsEnabled ==
    /\ ~firstDisabled <=> currentPage > 1
    /\ ~previousDisabled <=> currentPage > 1
    /\ ~nextDisabled <=> currentPage < totalPages
    /\ ~lastDisabled <=> currentPage < totalPages

RECURSIVE PagesUpTo(_)
\* the rows of the pages 1..n, one page after the other
PagesUpTo(n) ==
    IF n <= 0 THEN <<>>
    ELSE PagesUpTo(n - 1) \o pageRows(tableData, sortConfig, n, rowsPerPage)

\* C24: the pages 1..totalPages, one after the other, are the sorted rows:
\* no row is shown twice or left out, and no page holds more rows than the
\* page size.
C24_PagesPartition ==
    /\ PagesUpTo(totalPages) = sortedRows
    /\ \A page \in 1..totalPages :
           Len(pageRows(tableData, sortConfig, page, rowsPerPage))
               <= rowsPerPage

\* sorted rows that take more than one page, the last page not full
C24_Witness ==
    /\ totalPages >= 2
    /\ sortConfig # <<>>
    /\ sortedRows # tableData
    /\ currentPage = totalPages
    /\ Len(paginatedData) < rowsPerPage
    /\ Len(paginatedData) > 0

\* C25: a click on a sort button and a change of the page size both leave
\* the table on page 1.
C25_SortAndSizeResetPage ==
    [][(activated' # activated \/ rowsPerPage' # rowsPerPage)
          => currentPage' = 1]_vars

\* a column was activated while the table was on a later page
C25_Witness ==
    /\ tableEvent.op = "handleSort"
    /\ tableEvent.page > 1
    /\ currentPage = 1
    /\ totalPages > 1

---------------------------------------------------------------------------
(* Claims about the table in App, checked under SpecAppTable *)

\* C26: whenever the rows given to the table change, the table is on
\* page 1 afterwards, and the table on screen is never on a page that its
\* rows do not have.
C26_DataChangeResetsPage ==
    /\ [][tableData' # tableData => currentPage' = 1]_vars
    /\ []((mounted /\ showTable) => currentPage <= totalPages)

\* C27: the page size changes only when the user selects one: a search
\* and a click on a sort button leave it as it was.
C27_PageSizePersists ==
    [][rowsPerPage' # rowsPerPage => tableEvent'.op = "rowsPerPage"]_vars

\* C28: the sort configuration changes only when the user activates a
\* column: a new search result is shown under the configuration the old
\* one was shown under.
C28_SortKeptOverSearch ==
    [][sortConfig' # sortConfig =>
          (tableEvent'.op = "handleSort" /\ activated' # activated)]_vars

---------------------------------------------------------------------------
(* Claims about the debounce, checked under SpecDebounce *)

\* the search issued last was for the term in the input, and what it
\* resolved with is on screen
finalTermDisplayed ==
    /\ requests # <<>>
    /\ requests[Len(requests)].term = trim(searchTerm)
    /\ ~isNull(requests[Len(requests)].outcome)
    /\ ~isPending
    /\ cities = requests[Len(requests)].outcome.value

\* after the first run of the effects a search is issued only by the timer
\* of the debounce firing, for the term the input holds then
C29_IssuedOnlyAtFire ==
    [][(mounted /\ searchIssued) =>
          /\ ~isNull(debounceTimer)
          /\ isNull(debounceTimer')
          /\ searchTerm' = searchTerm
          /\ requests'[Len(requests')].term = trim(searchTerm)]_vars

\* after a keystroke either the term is changed again or the result of a
\* search for it comes on screen
C29_FinalTermSearched ==
    \A t \in DebounceTerms :
        (mounted /\ searchTerm = t /\ lastEvent.op = "onSearchTermChange")
            ~> (searchTerm # t \/ finalTermDisplayed)

\* C29: a search is issued only when the debounce timer fires, for the term
\* that was in the input for the whole window and never for a term that
\* was replaced; once typing stops, the last term is searched and its
\* result is displayed.
C29_Debounced == C29_IssuedOnlyAtFire /\ C29_FinalTermSearched

---------------------------------------------------------------------------
(* Claims about the records getCities returns, checked under SpecQuery *)

\* the fields of a City object
CityFields ==
    {"id", "name", "nameAscii", "country", "countryIso3", "capital",
     "population"}

\* C30: every record returned by getCities is the positional image of one
\* raw tuple: id, name, nameAscii, country, countryIso3, capital and
\* population are positions 0..6 of the same tuple, unchanged, and the i-th
\* record comes from the i-th tuple of the sliced match set.
C30_PositionalImage ==
    (returnedValid /\ result.tag = "returned") =>
        \A j \in 1..Len(result.value) :
            LET record == result.value[j]
                row == MatchSet[effectiveOffset + j]
            IN  /\ DOMAIN record = CityFields
                /\ record.id = row[1]
                /\ record.name = row[2]
                /\ record.nameAscii = row[3]
                /\ record.country = row[4]
                /\ record.countryIso3 = row[5]
                /\ record.capital = row[6]
                /\ record.population = row[7]

\* a record is returned from inside a match set that is not the whole
\* dataset: its tuple is not the one at that position of the dataset, and
\* the id and the population of the tuple differ
C30_Witness ==
    /\ returnedValid
    /\ result.tag = "returned"
    /\ effectiveOffset >= 1
    /\ Len(result.value) >= 1
    /\ Len(MatchSet) < Len(worldcities)
    /\ result.value[1].id # worldcities[effectiveOffset + 1][1]
    /\ result.value[1].population # result.value[1].id

---------------------------------------------------------------------------
(* Claims about the handlers of the table, checked under SpecTable *)

\* the step is a click on a sort button
sortActivated == tableEvent'.op = "handleSort" /\ activated' # activated

\* the positions of the sort configuration that hold the key
positionsOf(key) == {n \in 1..Len(sortConfig) : sortConfig[n].key = key}

\* C31: an activation edits the sort configuration by position and keeps
\* its keys unique: a column that is not in it is appended as ascending, an
\* ascending column becomes descending at its position, a descending
\* column is removed, and every other entry keeps its direction and its
\* relative order; no column is in it twice.
C31_PositionalEdit ==
    /\ [](\A m, n \in 1..Len(sortConfig) :
             m # n => sortConfig[m].key # sortConfig[n].key)
    /\ [][sortActivated =>
             LET key == tableEvent'.key
             IN  IF positionsOf(key) = {}
                 THEN sortConfig' =
                          Append(sortConfig, [key |-> key, direction |-> "asc"])
                 ELSE \E n \in positionsOf(key) :
                          IF sortConfig[n].direction = "asc"
                          THEN sortConfig' =
                                   [sortConfig EXCEPT
                                       ![n] = [key |-> key, direction |-> "desc"]]
                          ELSE /\ Len(sortConfig') = Len(sortConfig) - 1
                               /\ \A m \in 1..Len(sortConfig') :
                                      sortConfig'[m] =
                                          IF m < n THEN sortConfig[m]
                                          ELSE sortConfig[m + 1]]_vars

\* a column was appended, turned descending in front of a second column
\* and removed from in front of it
C31_Witness ==
    \E k1, k2 \in SortableColumns :
        /\ k1 # k2
        /\ activated = <<k1, k2, k1, k1>>
        /\ tableEvent.op = "handleSort"
        /\ sortConfig = <<[key |-> k2, direction |-> "asc"]>>

\* the index in front of the first row of the current page
pageStart == (currentPage - 1) * rowsPerPage

\* C32: sorting comes before pagination: the rows visible on page i are the
\* positions (i-1)*pageSize .. i*pageSize-1 of the sorted sequence of all
\* the rows the table was given, so the sort is over all rows and not over
\* the rows of the page.
C32_SortBeforePaginate ==
    LET sorted == sortedRows
        visible == slice(sorted, pageStart, pageStart + rowsPerPage)
    IN  /\ paginatedData = visible
        /\ Len(visible) =
               Cardinality({p \in (pageStart + 1)..(pageStart + rowsPerPage) :
                               p \in 1..Len(sorted)})
        /\ \A j \in 1..Len(visible) : visible[j] = sorted[pageStart + j]
        /\ Len(sorted) = Len(tableData)
        /\ {sorted[i] : i \in 1..Len(sorted)}
               = {tableData[i] : i \in 1..Len(tableData)}
        /\ \A i, j \in 1..Len(sorted) :
               i < j => compareRows(sorted[i], sorted[j], sortConfig) <= 0

\* a page of a sorted table whose rows are not the rows the same page of
\* the unsorted data holds
C32_Witness ==
    /\ sortConfig # <<>>
    /\ totalPages >= 2
    /\ currentPage >= 1
    /\ Len(paginatedData) >= 1
    /\ {paginatedData[j] : j \in 1..Len(paginatedData)}
           # {tableData[p] :
                  p \in {q \in (pageStart + 1)..(pageStart + rowsPerPage) :
                            q \in 1..Len(tableData)}}

---------------------------------------------------------------------------
(* Claims about the rows the view holds, checked under SpecLarge *)

\* the identifiers of the rows of the dataset that match the term
matchingIds(term) ==
    LET t == toLowerCase(trim(term))
    IN  {worldcities[i][1] : i \in {n \in 1..Len(worldcities) :
            \/ t = <<>>
            \/ includes(toLowerCase(worldcities[n][2]), t)
            \/ includes(toLowerCase(worldcities[n][4]), t)}}

\* the step settles request i with a sequence
settledWithArray(i) ==
    /\ i \in inflight
    /\ ~isNull(requests'[i].outcome)
    /\ requests'[i].outcome.tag = "fulfilled"
    /\ ~isNull(requests'[i].outcome.value)

\* C33: after a successful search the rows the view holds are the full
\* match set of the term over the whole dataset, whatever its size: no
\* matching record is missing, and the table, when it is rendered, is given
\* these rows.
C33_FullMatchSet ==
    [][\A i \in 1..MaxRequests :
           settledWithArray(i) =>
               /\ ~isNull(cities')
               /\ {cities'.items[j].id : j \in 1..Len(cities'.items)}
                      = matchingIds(requests[i].term)
               /\ Len(cities'.items) = Cardinality(matchingIds(requests[i].term))
               /\ tableRendered(isPending', noResults', error')
                      => tableData' = cities'.items]_vars

---------------------------------------------------------------------------
(* Claims about the teardown of the view, checked under SpecTeardown *)

\* C34: after the view is torn down nothing is dispatched to its state: a
\* pending debounce timer does not fire a search, and a request in flight
\* that settles later makes no state update.
C34_NothingAfterTeardown ==
    /\ [](destroyed => isNull(debounceTimer))
    /\ [][destroyed =>
             /\ ~searchIssued
             /\ UNCHANGED <<searchTerm, debouncedSearchTerm, cities, error,
                            isPending, noResults>>]_vars

---------------------------------------------------------------------------
(* Claims about the pending state, checked under SpecSettle *)

\* C35: when every issued request settles and no further search is issued
\* the view leaves the pending state and stays out of it; it is pending for
\* ever only when a request never settles.
C35_PendingEnds ==
    /\ [](inflight = {} => ~isPending)
    /\ (<>[][~searchIssued]_vars => <>[](~isPending))
    /\ (<>[]isPending => <>[](inflight # {}))

\* two searches were issued and both have settled, the one that settled
\* last with a failure
C35_Witness ==
    /\ Len(requests) >= 2
    /\ inflight = {}
    /\ lastEvent.op \in {"reject", "malformed"}
    /\ ~isPending

---------------------------------------------------------------------------
(* Claims about values that are not there, checked under SpecSparse *)

\* the columns that hold text
TextColumns == {"name", "country"}

\* the value of the column is missing or null in the row
valueMissing(row, key) == cell(row, key).tag \in {"undefined", "null"}

\* the row has a text of at least one character in the column
valueNonEmpty(row, key) ==
    /\ cell(row, key).tag = "string"
    /\ cell(row, key).chars # <<>>

\* C36: a record whose value of the sort column is missing or null is
\* compared as the empty string: sorted ascending by a text column it comes
\* before every record with a non-empty value, sorted descending after
\* them.
C36_MissingAsEmpty ==
    \A key \in TextColumns :
        (sortConfig # <<>> /\ sortConfig[1].key = key) =>
            LET sorted == sortedRows
            IN  \A i, j \in 1..Len(sorted) :
                    (valueMissing(sorted[i], key) /\ valueNonEmpty(sorted[j], key))
                        => IF sortConfig[1].direction = "asc" THEN i < j
                           ELSE j < i

\* sorted descending by country, a row without country and a row with a
\* null country stand behind a row with a country that was given last
C36_Witness ==
    /\ sortConfig = <<[key |-> "country", direction |-> "desc"]>>
    /\ Len(tableData) >= 3
    /\ valueMissing(tableData[1], "country")
    /\ \E i \in 1..Len(tableData) : cell(tableData[i], "country").tag = "null"
    /\ \E i \in 1..Len(tableData) :
           cell(tableData[i], "country").tag = "undefined"
    /\ valueNonEmpty(sortedRows[1], "country")

---------------------------------------------------------------------------
(* Claims about failed searches, checked under Spec *)

\* the step settles request i with a failure: a rejection, or a value that
\* is not a sequence
settledWithFailure(i) ==
    /\ i \in inflight
    /\ ~isNull(requests'[i].outcome)
    /\ \/ requests'[i].outcome.tag = "rejected"
       \/ /\ requests'[i].outcome.tag = "fulfilled"
          /\ isNull(requests'[i].outcome.value)

\* C37: a search that ends in the error state leaves the stored result as
\* it was: the stored cities and the no-results flag after the failure are
\* those from before it, for a rejected request and for a malformed result.
C37_FailureKeepsResult ==
    [][\A i \in 1..MaxRequests :
           settledWithFailure(i) =>
               /\ ~isNull(error')
               /\ cities' = cities
               /\ noResults' = noResults]_vars

\* request i has resolved with a value that is not a sequence
resolvedMalformed(i) ==
    /\ ~isNull(requests[i].outcome)
    /\ requests[i].outcome.tag = "fulfilled"
    /\ isNull(requests[i].outcome.value)

---------------------------------------------------------------------------
(* Claims about the frame of the table handlers, checked under SpecAppTable *)

PageControls == {"First Page", "Previous Page", "Next Page", "Last Page"}

\* the step is a click on a page control
pageNavigated ==
    /\ tableEvent'.op \in PageControls
    /\ currentPage' # currentPage

\* the step is a change of the rows-per-page select
pageSizeChanged ==
    /\ tableEvent'.op = "rowsPerPage"
    /\ rowsPerPage' # rowsPerPage

\* the step leaves the rows and the view as they were and issues no search
dataAndSearchKept ==
    /\ tableData' = tableData
    /\ cities' = cities
    /\ requests' = requests
    /\ UNCHANGED <<searchTerm, debouncedSearchTerm, debounceTimer, error,
                   isPending, noResults>>

\* C39: the handlers of the table touch their own part of its state: page
\* navigation leaves the sort configuration and the page size as they were,
\* a change of the page size leaves the sort configuration, an activation
\* of a column leaves the page size; none of them changes the data or
\* issues a search.
C39_TableFrame ==
    [][/\ pageNavigated =>
              /\ UNCHANGED <<sortConfig, rowsPerPage>>
              /\ dataAndSearchKept
       /\ pageSizeChanged =>
              /\ UNCHANGED sortConfig
              /\ dataAndSearchKept
       /\ sortActivated =>
              /\ UNCHANGED rowsPerPage
              /\ dataAndSearchKept]_vars

\* the second page of a table that was sorted and given another page size,
\* reached while a search is in flight
C39_Witness ==
    /\ tableEvent.op = "Next Page"
    /\ currentPage = 2
    /\ sortConfig # <<>>
    /\ rowsPerPage # DefaultRowsPerPage
    /\ inflight # {}

====
